---- MODULE Spec2Model ----
(***************************************************************************)
(* FitGirl downloader: the synchronisation pipeline of src/app.py, the     *)
(* scraper loop of src/backend/x1337_scraper.py and the JSON store of      *)
(* src/backend/json_database_manager.py.                                   *)
(*                                                                         *)
(* Request handlers run on server threads, a sync run on a background      *)
(* thread.  A step of the model is one handler, or one stretch of the      *)
(* worker between two blocking calls (a network fetch, a sleep).           *)
(***************************************************************************)
EXTENDS Integers, Sequences, FiniteSets, TLC

(* ------------------------------ bounds --------------------------------- *)

\* listing pages a run walks through (range(1, 100 + 1) in the source): more
\* than the total_pages announced for an incremental run
EndPage == 3
\* start-sync requests that are accepted
MaxRuns == 2
\* user requests: status updates, deletions, clear, single-release re-syncs
MaxUserOps == 2

\* total_pages announced for a first and for an incremental run
FirstSyncTotalPages == 100
IncrementalTotalPages == 2

Workers == {1, 2}
\* the detail URLs the site lists
Catalogue == {"u1"}
Magnets == {"m1", "m2"}
\* description, size, number of screenshots of a detail page
Contents == { [description |-> "d1", size |-> "8.0 GB", shots |-> 0],
              [description |-> "d2", size |-> "8.0 GB", shots |-> 0] }
Statuses == {"NEW", "DOWNLOADED", "IGNORED"}

\* Python None: a missing magnet link, a missing timestamp, no id returned
None == "None"
NoTime == 0
NoId == 0

VARIABLES
    sync_in_progress,   \* app.py global flag
    sync_progress,      \* app.py global dict, a function from keys to values
    db,                 \* db_structure["releases"], a sequence of dicts
    last_sync_check,    \* settings.last_sync_check, NoTime when None
    now,                \* datetime.now(), advanced at every stored reading
    pc,                 \* position of each worker thread
    wk,                 \* locals of each worker thread
    resync,             \* the single-release re-sync request in flight
    site,               \* the detail URLs the site lists
    overlapped,         \* history: two worker threads have run at the same time
    lastResponse,       \* response of the last POST /api/sync
    runs,               \* accepted start-sync requests so far
    userOps,            \* user requests so far
    driver,             \* scraper.driver is set: the browser driver is held
    insert_callback,    \* the worker whose callback scraper.insert_callback is, 0 for None
    url_check_callback, \* the worker whose callback scraper.url_check_callback is, 0 for None
    served,             \* the answers the site can give to a request for a detail URL
    assigned_ids,       \* history: the ids returned by the store's inserts
    dates,              \* a call of _parse_relative_date: its text, the clock, the result
    sizes,              \* a call of _extract_size: its page and the result
    candidate,          \* a call of insert_release_callback: its release and the result
    extraction          \* the image part of _extract_release_details in each thread: position, locals

\* the callbacks the scraper holds
callbacks == << insert_callback, url_check_callback >>

\* state no request handler and no worker step of app.py writes
aux == << served, assigned_ids, dates, sizes, candidate, extraction >>

vars == << sync_in_progress, sync_progress, db, last_sync_check, now, pc, wk,
           resync, site, overlapped, lastResponse, runs, userOps, driver,
           callbacks, aux >>

(* ------------------------------ helpers -------------------------------- *)

Range(s) == { s[i] : i \in 1..Len(s) }

RemoveAt(s, i) == [ j \in 1..(Len(s) - 1) |-> IF j < i THEN s[j] ELSE s[j + 1] ]

Max(S) == CHOOSE x \in S : \A y \in S : y <= x

\* all sequences without repetition over S
RECURSIVE Perms(_)
Perms(S) ==
    IF S = {} THEN { << >> }
    ELSE UNION { { <<x>> \o p : p \in Perms(S \ {x}) } : x \in S }

\* the link lists a listing page can carry
Listings == UNION { Perms(T) : T \in SUBSET site }

(* ----------------------------- progress -------------------------------- *)

\* sync_progress.update({'status': .., 'message': .., **kwargs})
update_sync_progress(progress, status, message, kwargs) ==
    kwargs @@ [status |-> status, message |-> message] @@ progress

sync_progress_initial ==
    [ status |-> "idle", current_page |-> 0, total_pages |-> 0,
      current_release |-> 0, total_releases |-> 0, new_releases |-> 0,
      updated_releases |-> 0, message |-> "" ]

\* no keyword arguments
NoKw == [ x \in {} |-> 0 ]

(* ------------------------------- store --------------------------------- *)

magnet_key(magnet_link) == IF magnet_link = "" \/ magnet_link = None THEN "no_magnet" ELSE magnet_link

release_key(r) == << r.url, magnet_key(r.magnet_link) >>

\* GameRelease.has_download_links
has_download_links(r) == r.magnet_link # "" /\ r.magnet_link # None

get_next_id(releases) ==
    IF releases = << >> THEN 1 ELSE Max({ releases[i].id : i \in 1..Len(releases) }) + 1

\* index of the first stored dict with the id, 0 when there is none
IndexOfId(releases, release_id) ==
    IF \E i \in 1..Len(releases) : releases[i].id = release_id
    THEN CHOOSE i \in 1..Len(releases) :
            releases[i].id = release_id /\ \A j \in 1..(i - 1) : releases[j].id # release_id
    ELSE 0

\* index of the first stored dict with the url, 0 when there is none
IndexOfUrl(releases, url) ==
    IF \E i \in 1..Len(releases) : releases[i].url = url
    THEN CHOOSE i \in 1..Len(releases) :
            releases[i].url = url /\ \A j \in 1..(i - 1) : releases[j].url # url
    ELSE 0

\* _release_to_dict: neither created_at nor updated_at is written
release_to_dict(r) ==
    [ url |-> r.url, magnet_link |-> r.magnet_link, content |-> r.content,
      status |-> r.status ]

\* insert_release without the duplicate check of lines 147-156
insert_release_unchecked(releases, r) ==
    LET new_id == get_next_id(releases)
    IN << Append(releases, release_to_dict(r) @@ [id |-> new_id, created_at |-> NoTime]), new_id >>

\* insert_release: <<new store, id or None>>
insert_release(releases, r) ==
    IF \E i \in 1..Len(releases) : release_key(releases[i]) = release_key(r)
    THEN << releases, NoId >>
    ELSE LET new_id == get_next_id(releases)
         IN << Append(releases, release_to_dict(r) @@ [id |-> new_id, created_at |-> NoTime]), new_id >>

\* update_release: first dict with the same url; existing_release["created_at"]
\* raises KeyError when the key is missing, which the method catches
update_release(releases, r) ==
    LET i == IndexOfUrl(releases, r.url)
    IN IF i = 0 \/ releases[i].created_at = NoTime
       THEN << releases, FALSE >>
       ELSE << [ releases EXCEPT ![i] =
                   release_to_dict(r) @@ [id |-> releases[i].id, created_at |-> releases[i].created_at] ],
               TRUE >>

\* update_release_by_id
update_release_by_id(releases, release_id, r, time) ==
    LET i == IndexOfId(releases, release_id)
    IN IF i = 0
       THEN << releases, FALSE >>
       ELSE << [ releases EXCEPT ![i] =
                   release_to_dict(r) @@
                   [ id |-> release_id,
                     created_at |-> IF releases[i].created_at # NoTime
                                    THEN releases[i].created_at ELSE time ] ],
               TRUE >>

\* update_release_status
update_release_status(releases, release_id, status) ==
    LET i == IndexOfId(releases, release_id)
    IN IF i = 0 THEN << releases, FALSE >>
       ELSE << [ releases EXCEPT ![i].status = status ], TRUE >>

\* delete_release
delete_release(releases, release_id) ==
    LET i == IndexOfId(releases, release_id)
    IN IF i = 0 THEN << releases, FALSE >> ELSE << RemoveAt(releases, i), TRUE >>

\* get_release_by_id: the set holding the release, empty when there is none
get_release_by_id(releases, release_id) ==
    LET i == IndexOfId(releases, release_id)
    IN IF i = 0 THEN {} ELSE { releases[i] }

(* ------------------------------ scraper -------------------------------- *)

\* what the site serves for a detail URL: the request may fail, the page may
\* carry no magnet link
DetailPages ==
    [ fetched : BOOLEAN, magnet_link : Magnets \cup {""}, content : Contents ]

\* the answers to a request for a detail page that carries the magnet link
\* and the content: the request may fail
Answers(magnet_links, contents) ==
    { page \in DetailPages : page.magnet_link \in magnet_links /\ page.content \in contents }

\* session.get(torrent_url)
Served(torrent_url) == served[torrent_url]

\* _extract_release_details without the magnet check of lines 478-480
extract_release_details_any_magnet(torrent_url, page) ==
    IF ~page.fetched THEN {}
    ELSE { [ url |-> torrent_url, magnet_link |-> page.magnet_link,
             content |-> page.content, status |-> "NEW" ] }

\* _extract_release_details: the set holding the GameRelease, empty for None
extract_release_details(torrent_url, page) ==
    IF ~page.fetched THEN {}
    ELSE IF page.magnet_link = "" THEN {}
    ELSE { [ url |-> torrent_url, magnet_link |-> page.magnet_link,
             content |-> page.content, status |-> "NEW" ] }

(* ------------------------ _parse_relative_date ------------------------- *)

\* no call of _parse_relative_date is being looked at
NoDates == [ called |-> FALSE ]

\* a word is the sequence of its characters
StartsWith(word, prefix) ==
    Len(word) >= Len(prefix) /\ SubSeq(word, 1, Len(prefix)) = prefix

\* the alternatives of the two patterns of lines 791 and 803
LongUnits ==
    { << "s", "e", "c", "o", "n", "d" >>, << "m", "i", "n", "u", "t", "e" >>,
      << "h", "o", "u", "r" >>, << "d", "a", "y" >>, << "w", "e", "e", "k" >>,
      << "m", "o", "n", "t", "h" >>, << "y", "e", "a", "r" >> }

ShortUnits ==
    { << "s", "e", "c" >>, << "m", "i", "n" >>, << "h", "r" >>, << "h", "r", "s" >>,
      << "h" >>, << "d" >>, << "w" >>, << "m", "o" >>, << "y" >> }

\* the dict of lines 812-821; dict.get(unit, unit) for a missing key
unit_mapping(unit) ==
    CASE unit = << "s", "e", "c" >> -> << "s", "e", "c", "o", "n", "d" >>
      [] unit = << "m", "i", "n" >> -> << "m", "i", "n", "u", "t", "e" >>
      [] unit = << "h", "r" >> -> << "h", "o", "u", "r" >>
      [] unit = << "h" >> -> << "h", "o", "u", "r" >>
      [] unit = << "d" >> -> << "d", "a", "y" >>
      [] unit = << "w" >> -> << "w", "e", "e", "k" >>
      [] unit = << "m", "o" >> -> << "m", "o", "n", "t", "h" >>
      [] unit = << "y" >> -> << "y", "e", "a", "r" >>
      [] OTHER -> unit

SecondsPerDay == 86400
\* timedelta.max.days
MaxDeltaDays == 999999999

\* timedelta(seconds = n), normalised to days and seconds of the day; the
\* empty set stands for OverflowError
timedelta_seconds(n) ==
    IF n \div SecondsPerDay > MaxDeltaDays THEN {}
    ELSE { [ days |-> n \div SecondsPerDay, seconds |-> n % SecondsPerDay ] }

\* timedelta(days = n)
timedelta_days(n) ==
    IF n > MaxDeltaDays THEN {} ELSE { [ days |-> n, seconds |-> 0 ] }

\* datetime - timedelta: a datetime is the ordinal of its day, 1 for
\* 0001-01-01, and the second of the day; a result before datetime.min raises
\* OverflowError
datetime_sub(time, deltas) ==
    { [ days |-> IF time.seconds >= delta.seconds
                 THEN time.days - delta.days ELSE time.days - delta.days - 1,
        seconds |-> IF time.seconds >= delta.seconds
                    THEN time.seconds - delta.seconds
                    ELSE time.seconds - delta.seconds + SecondsPerDay ] :
      delta \in { x \in deltas :
                     time.days - x.days - (IF time.seconds >= x.seconds THEN 0 ELSE 1) >= 1 } }

\* _calculate_date_from_ago with a month of 31 days
calculate_date_from_ago_calendar(amount, unit, time) ==
    IF StartsWith(unit, << "s", "e", "c" >>) \/ unit = << "s" >>
    THEN datetime_sub(time, timedelta_seconds(amount))
    ELSE IF StartsWith(unit, << "m", "i", "n" >>) \/ unit = << "m" >>
    THEN datetime_sub(time, timedelta_seconds(amount * 60))
    ELSE IF StartsWith(unit, << "h", "o", "u", "r" >>) \/ StartsWith(unit, << "h", "r" >>) \/ unit = << "h" >>
    THEN datetime_sub(time, timedelta_seconds(amount * 3600))
    ELSE IF StartsWith(unit, << "d", "a", "y" >>) \/ unit = << "d" >>
    THEN datetime_sub(time, timedelta_days(amount))
    ELSE IF StartsWith(unit, << "w", "e", "e", "k" >>) \/ unit = << "w" >>
    THEN datetime_sub(time, timedelta_days(amount * 7))
    ELSE IF StartsWith(unit, << "m", "o", "n", "t", "h" >>) \/ unit = << "m", "o" >>
    THEN datetime_sub(time, timedelta_days(amount * 31))
    ELSE IF StartsWith(unit, << "y", "e", "a", "r" >>) \/ unit = << "y" >>
    THEN datetime_sub(time, timedelta_days(amount * 365))
    ELSE {}

\* _calculate_date_from_ago: the set holding the datetime, empty for None;
\* OverflowError is caught and None returned
calculate_date_from_ago(amount, unit, time) ==
    IF StartsWith(unit, << "s", "e", "c" >>) \/ unit = << "s" >>
    THEN datetime_sub(time, timedelta_seconds(amount))
    ELSE IF StartsWith(unit, << "m", "i", "n" >>) \/ unit = << "m" >>
    THEN datetime_sub(time, timedelta_seconds(amount * 60))
    ELSE IF StartsWith(unit, << "h", "o", "u", "r" >>) \/ StartsWith(unit, << "h", "r" >>) \/ unit = << "h" >>
    THEN datetime_sub(time, timedelta_seconds(amount * 3600))
    ELSE IF StartsWith(unit, << "d", "a", "y" >>) \/ unit = << "d" >>
    THEN datetime_sub(time, timedelta_days(amount))
    ELSE IF StartsWith(unit, << "w", "e", "e", "k" >>) \/ unit = << "w" >>
    THEN datetime_sub(time, timedelta_days(amount * 7))
    ELSE IF StartsWith(unit, << "m", "o", "n", "t", "h" >>) \/ unit = << "m", "o" >>
    THEN datetime_sub(time, timedelta_days(amount * 30))
    ELSE IF StartsWith(unit, << "y", "e", "a", "r" >>) \/ unit = << "y" >>
    THEN datetime_sub(time, timedelta_days(amount * 365))
    ELSE {}

\* a date text: digits, blanks, a word, blanks, a last word
\* re.search of line 792: (\d+)\s+(second|...|year)s?\s+ago
long_match(text) ==
    { unit \in LongUnits :
        /\ text.blanks_before >= 1
        /\ ( text.word = unit \/ text.word = unit \o << "s" >> )
        /\ text.blanks_after >= 1
        /\ StartsWith(text.last, << "a", "g", "o" >>) }

\* re.search of line 804: (\d+)\s*(sec|min|hr|hrs|h|d|w|mo|y)\s+ago
short_match(text) ==
    { unit \in ShortUnits :
        /\ text.word = unit
        /\ text.blanks_after >= 1
        /\ StartsWith(text.last, << "a", "g", "o" >>) }

\* _parse_relative_date at clock reading time
parse_relative_date(text, time) ==
    IF long_match(text) # {}
    THEN calculate_date_from_ago(text.amount, CHOOSE unit \in long_match(text) : TRUE, time)
    ELSE IF short_match(text) # {}
    THEN calculate_date_from_ago(text.amount,
                                 unit_mapping(CHOOSE unit \in short_match(text) : TRUE), time)
    ELSE {}

(* ---------------------------- _extract_size ---------------------------- *)

\* no call of _extract_size is being looked at
NoSizes == [ called |-> FALSE ]

\* a size as the page writes it: the number as text, its value in tenths
NoToken == [ number |-> "", tenths |-> 0, unit |-> "" ]

Tokens ==
    { [ number |-> "8.0", tenths |-> 80, unit |-> "GB" ],
      [ number |-> "700", tenths |-> 7000, unit |-> "MB" ],
      [ number |-> "150", tenths |-> 1500, unit |-> "GB" ] }

\* an element of the page: a container of class torrent-info, list or
\* info-table, a td cell or any other element, whose text is a size, a size
\* after the label 'Size:', or no size
Elements ==
    [ kind : {"info", "td", "other"}, labeled : BOOLEAN, token : Tokens \cup {NoToken} ]

\* str(float(number))
float_str(token) ==
    CASE token.tenths = 80 -> "8.0"
      [] token.tenths = 7000 -> "700.0"
      [] token.tenths = 1500 -> "150.0"

\* the range filter of lines 1339-1350, on tenths
in_range(token) ==
    \/ token.unit = "GB" /\ 1 <= token.tenths /\ token.tenths <= 1000
    \/ token.unit = "MB" /\ 1000 <= token.tenths /\ token.tenths <= 200000
    \/ token.unit = "TB" /\ 5 <= token.tenths /\ token.tenths <= 100

\* the first of a set of positions, in document order
first_of(hits) == CHOOSE i \in hits : \A j \in hits : i <= j

\* lines 1288-1298: the classed containers whose text has a labeled size
method1(soup) ==
    { i \in 1..Len(soup) :
        soup[i].kind = "info" /\ soup[i].labeled /\ soup[i].token # NoToken }

\* lines 1302-1309: the td cells whose whole text is a size
method2(soup) ==
    { i \in 1..Len(soup) :
        soup[i].kind = "td" /\ ~soup[i].labeled /\ soup[i].token # NoToken }

\* lines 1316-1350: the matches of one pattern, the labeled one or the one of
\* a unit, in the text of the whole page, that pass the range filter
method3(soup, pattern) ==
    { i \in 1..Len(soup) :
        /\ soup[i].token # NoToken
        /\ IF pattern = "labeled" THEN soup[i].labeled ELSE soup[i].token.unit = pattern
        /\ in_range(soup[i].token) }

\* the marker of line 1359
Unknown == [ number |-> "N/A", unit |-> "" ]

\* _extract_size: the number and the unit returned
extract_size(soup) ==
    IF method1(soup) # {}
    THEN LET t == soup[first_of(method1(soup))].token
         IN [ number |-> t.number, unit |-> t.unit ]
    ELSE IF method2(soup) # {}
    THEN LET t == soup[first_of(method2(soup))].token
         IN [ number |-> t.number, unit |-> t.unit ]
    ELSE IF \E pattern \in {"labeled", "GB", "MB", "TB"} : method3(soup, pattern) # {}
    THEN LET pattern == CHOOSE q \in {"labeled", "GB", "MB", "TB"} :
                            /\ method3(soup, q) # {}
                            /\ q = "GB" => method3(soup, "labeled") = {}
                            /\ q = "MB" => method3(soup, "labeled") = {} /\ method3(soup, "GB") = {}
                            /\ q = "TB" => /\ method3(soup, "labeled") = {}
                                           /\ method3(soup, "GB") = {}
                                           /\ method3(soup, "MB") = {}
             t == soup[first_of(method3(soup, pattern))].token
         IN [ number |-> float_str(t), unit |-> t.unit ]
    ELSE Unknown

(* --------------------------- worker callbacks -------------------------- *)

\* locals of sync_releases_worker; db0 records the store the run started from
NoLocals ==
    [ existing_release_keys |-> [ k \in {} |-> 0 ], existing_urls |-> {},
      torrent_links |-> << >>, page |-> 0, i |-> 0,
      new_releases |-> 0, updated_releases |-> 0, skipped_releases |-> 0,
      releases |-> 0, db0 |-> << >> ]

\* url_exists_callback answering False for every URL
url_exists_callback_never(l, url) == FALSE

\* url_exists_callback
url_exists_callback(l, url) == url \in l.existing_urls

Counts(l) ==
    [ new_releases |-> l.new_releases, updated_releases |-> l.updated_releases,
      skipped_releases |-> l.skipped_releases ]

\* lines 192-193 without the second one: only the key index learns the release
remember_key_only(l, key, release) ==
    [ l EXCEPT !.existing_release_keys = (key :> release) @@ @ ]

\* lines 192-193: both lookup structures learn the inserted release
remember(l, key, release) ==
    [ l EXCEPT !.existing_release_keys = (key :> release) @@ @,
               !.existing_urls = @ \cup { release.url } ]

\* insert_release_callback: the store, the locals and the progress record
\* after the call, and the value returned
insert_release_callback(releases, l, progress, release) ==
    LET key == release_key(release)
    IN IF key \in DOMAIN l.existing_release_keys
       THEN LET l1 == [ l EXCEPT !.skipped_releases = @ + 1 ]
                existing_release == l.existing_release_keys[key]
                needs_update ==
                    \/ existing_release.content.description # release.content.description
                    \/ existing_release.content.size # release.content.size
                    \/ existing_release.content.shots # release.content.shots
            IN IF existing_release.status = "NEW" /\ needs_update
               THEN LET l2 == [ l1 EXCEPT !.updated_releases = @ + 1 ]
                    IN [ db |-> update_release(releases, release)[1], l |-> l2,
                         progress |-> update_sync_progress(progress, "processing",
                                          "Release updated", Counts(l2)),
                         result |-> TRUE ]
               ELSE [ db |-> releases, l |-> l1, progress |-> progress, result |-> TRUE ]
       ELSE LET ins == insert_release(releases, release)
            IN IF ins[2] # NoId
               THEN LET l2 == [ remember(l, key, ins[1][Len(ins[1])]) EXCEPT
                                  !.new_releases = @ + 1 ]
                    IN [ db |-> ins[1], l |-> l2,
                         progress |-> update_sync_progress(progress, "processing",
                                          "New release added", Counts(l2)),
                         result |-> TRUE ]
               ELSE [ db |-> releases, l |-> l, progress |-> progress, result |-> FALSE ]

\* no call of insert_release_callback is being looked at
NoCandidate == [ called |-> FALSE ]

\* no extraction is under way: none has started yet; created counts the
\* browser instances the attempts have created so far, open those not yet quit
NoExtraction ==
    [ phase |-> "idle", n |-> 0, direct |-> FALSE, found |-> FALSE, attempt |-> 0,
      found_at |-> 0, open |-> 0, cover_image_url |-> FALSE, screenshot_urls |-> FALSE,
      created |-> 0 ]

\* the threads that call _extract_release_details: the worker thread of a
\* run and the request thread of a single-release re-sync
Threads == {"worker", "request"}

NoExtractions == [ t \in Threads |-> NoExtraction ]

(* ------------------------- POST /api/sync ------------------------------ *)

FreeWorkers == { w \in Workers : pc[w] = "none" }

\* sync_releases without the check of lines 491-496
sync_releases_unguarded ==
    /\ runs < MaxRuns
    /\ FreeWorkers # {}
    /\ LET w == CHOOSE x \in FreeWorkers : \A y \in FreeWorkers : x <= y
       IN pc' = [ pc EXCEPT ![w] = "spawned" ]
    /\ runs' = runs + 1
    /\ lastResponse' = "started"
    /\ UNCHANGED << sync_in_progress, sync_progress, db, last_sync_check, now,
                    wk, resync, userOps, site, overlapped, driver,
                    callbacks, aux >>

\* sync_releases: the flag is read here and set later, by the worker thread
sync_releases ==
    IF sync_in_progress
    THEN /\ lastResponse' = "rejected"
         /\ UNCHANGED << sync_in_progress, sync_progress, db, last_sync_check, now,
                         pc, wk, resync, runs, userOps, site, overlapped, driver,
                    callbacks, aux >>
    ELSE /\ runs < MaxRuns
         /\ FreeWorkers # {}
         /\ LET w == CHOOSE x \in FreeWorkers : \A y \in FreeWorkers : x <= y
            IN pc' = [ pc EXCEPT ![w] = "spawned" ]
         /\ runs' = runs + 1
         /\ lastResponse' = "started"
         /\ UNCHANGED << sync_in_progress, sync_progress, db, last_sync_check, now,
                         wk, resync, userOps, site, overlapped, driver,
                    callbacks, aux >>

(* ----------------------- sync_releases_worker -------------------------- *)

\* lines 112-114: the flag is set and the first progress update is sent
worker_start(w) ==
    /\ pc[w] = "spawned"
    /\ sync_in_progress' = TRUE
    /\ sync_progress' = update_sync_progress(sync_progress, "starting",
                            "Starting synchronization...", NoKw)
    /\ pc' = [ pc EXCEPT ![w] = "started" ]
    /\ overlapped' = (overlapped \/ \E v \in Workers \ {w} : pc[v] \notin {"none", "spawned"})
    /\ UNCHANGED << db, last_sync_check, now, wk, resync, lastResponse, runs, userOps, site, driver,
                    callbacks, aux >>

StoredKeys(releases) == { release_key(releases[i]) : i \in 1..Len(releases) }

\* lines 116-137: the lookup structures are built from the store, the
\* counters start at 0
worker_load(w) ==
    /\ pc[w] = "started"
    /\ \E keys \in [ StoredKeys(db) -> Range(db) ] :
          /\ \A k \in StoredKeys(db) : release_key(keys[k]) = k
          /\ wk' = [ wk EXCEPT ![w] =
                       [ NoLocals EXCEPT
                           !.existing_release_keys = keys,
                           !.existing_urls = { db[i].url : i \in 1..Len(db) },
                           !.page = 1,
                           !.db0 = db ] ]
    /\ pc' = [ pc EXCEPT ![w] = "loaded" ]
    /\ UNCHANGED << sync_in_progress, sync_progress, db, last_sync_check, now, resync,
                    lastResponse, runs, userOps, site, overlapped, driver,
                    callbacks, aux >>

\* lines 243-254: the progress record after the 'scraping' update
announce_depth(w) ==
    LET is_first_sync == Len(wk[w].db0) = 0 \/ last_sync_check = NoTime
    IN IF is_first_sync
       THEN update_sync_progress(sync_progress, "scraping", "First synchronization",
                                 [ total_pages |-> FirstSyncTotalPages ])
       ELSE update_sync_progress(sync_progress, "scraping", "Incremental synchronization",
                                 [ total_pages |-> IncrementalTotalPages ])

\* lines 237-239: the insert callback is handed to the scraper, which all
\* runs share
worker_register(w) ==
    /\ pc[w] = "loaded"
    /\ insert_callback' = w
    /\ pc' = [ pc EXCEPT ![w] = "registering" ]
    /\ UNCHANGED << sync_in_progress, sync_progress, db, last_sync_check, now, wk, resync,
                    lastResponse, runs, userOps, site, overlapped, driver,
                    url_check_callback, aux >>

\* lines 240-256: the URL check callback is handed to the scraper and the
\* crawl depth is announced
worker_register_url_check(w) ==
    /\ pc[w] = "registering"
    /\ url_check_callback' = w
    /\ sync_progress' = announce_depth(w)
    /\ pc' = [ pc EXCEPT ![w] = "scraping" ]
    /\ UNCHANGED << sync_in_progress, db, last_sync_check, now, wk, resync, lastResponse,
                    runs, userOps, site, overlapped, driver, insert_callback, aux >>

(* ----------------------- get_releases_from_pages ----------------------- *)

\* one turn of the page loop (lines 228-255): the listing page is fetched and
\* its links, not seen before in this run, are appended; a failed request
\* leaves the loop through the outer handler (lines 316-321)
fetch_page(w) ==
    /\ pc[w] = "scraping"
    /\ wk[w].page <= EndPage
    /\ LET l == wk[w]
           p1 == update_sync_progress(sync_progress, "scraping", "Downloading page",
                     [ current_page |-> l.page, total_pages |-> EndPage ])
       IN \/ \* session.get raises, or raise_for_status does
             /\ sync_progress' = update_sync_progress(p1, "error", "Error getting releases", NoKw)
             /\ pc' = [ pc EXCEPT ![w] = "returned" ]
             /\ wk' = wk
          \/ \E listing \in Listings :
               LET fresh == SelectSeq(listing, LAMBDA u : u \notin Range(l.torrent_links))
               IN /\ wk' = [ wk EXCEPT ![w].torrent_links = @ \o fresh, ![w].page = @ + 1 ]
                  /\ sync_progress' = update_sync_progress(p1, "scraping", "Page: torrents found",
                                          [ current_page |-> l.page, total_pages |-> EndPage ])
                  /\ pc' = pc
    /\ UNCHANGED << sync_in_progress, db, last_sync_check, now, resync, lastResponse,
                    runs, userOps, site, overlapped, driver,
                    callbacks, aux >>

\* lines 257-258, after the last page
begin_processing(w) ==
    /\ pc[w] = "scraping"
    /\ wk[w].page > EndPage
    /\ sync_progress' = update_sync_progress(sync_progress, "processing", "Processing torrents",
                            [ current_release |-> 0, total_releases |-> Len(wk[w].torrent_links) ])
    /\ pc' = [ pc EXCEPT ![w] = "processing" ]
    /\ UNCHANGED << sync_in_progress, db, last_sync_check, now, wk, resync, lastResponse,
                    runs, userOps, site, overlapped, driver,
                    callbacks, aux >>

\* the outer handler of get_releases_from_pages in the place of the turn's own
candidate_error_fatal(progress, at) ==
    update_sync_progress(progress, "error", "Error getting releases", NoKw)

\* lines 307-310: the handler of one turn of the candidate loop
candidate_error(progress, at) ==
    update_sync_progress(progress, "processing", "Error processing torrent", at)

\* the variables a worker's callbacks share with its frame, taken from l
with_closure(frame, l) ==
    [ frame EXCEPT !.existing_release_keys = l.existing_release_keys,
                   !.existing_urls = l.existing_urls,
                   !.new_releases = l.new_releases,
                   !.updated_releases = l.updated_releases,
                   !.skipped_releases = l.skipped_releases ]

\* the locals of all workers after a turn of the loop of worker w that called
\* the insert callback the scraper holds: loop are the locals of the loop, l those
\* of the callback's worker
after_callback(w, loop, l) ==
    [ v \in Workers |->
        IF v = w THEN ( IF insert_callback = w THEN with_closure(loop, l) ELSE loop )
        ELSE IF v = insert_callback THEN with_closure(wk[v], l)
        ELSE wk[v] ]

\* one turn of the candidate loop (lines 261-311), with the callbacks the
\* scraper holds at the time (self.url_check_callback, self.insert_callback),
\* each that of the run that set it last; an exception raised under
\* the turn's try, in the extraction or in the callback after its store
\* write, is caught by the handler of lines 307-310 and the loop goes on
process_candidate(w) ==
    /\ pc[w] = "processing"
    /\ wk[w].i < Len(wk[w].torrent_links)
    /\ LET loop == [ wk[w] EXCEPT !.i = @ + 1 ]
           l == wk[insert_callback]
           torrent_url == loop.torrent_links[loop.i]
           at == [ current_release |-> loop.i, total_releases |-> Len(loop.torrent_links) ]
           p1 == update_sync_progress(sync_progress, "processing", "Verifying torrent", at)
       IN IF url_exists_callback(wk[url_check_callback], torrent_url)
          THEN /\ sync_progress' = update_sync_progress(p1, "processing",
                                       "URL already exists, skipped", at)
               /\ wk' = [ wk EXCEPT ![w] = loop ]
               /\ db' = db
          ELSE \E page \in Served(torrent_url), raised \in BOOLEAN :
                 LET p2 == update_sync_progress(p1, "processing", "Extracting torrent details", at)
                     found == extract_release_details(torrent_url, page)
                 IN IF \E release \in found : has_download_links(release)
                    THEN LET release == CHOOSE r \in found : TRUE
                             cb == insert_release_callback(db, l, p2, release)
                         IN /\ db' = cb.db
                            /\ IF raised
                               THEN /\ wk' = after_callback(w, loop, cb.l)
                                    /\ sync_progress' = candidate_error(cb.progress, at)
                               ELSE IF cb.result
                               THEN /\ wk' = after_callback(w, [ loop EXCEPT !.releases = @ + 1 ], cb.l)
                                    /\ sync_progress' = update_sync_progress(cb.progress,
                                           "processing", "Release inserted", at)
                               ELSE /\ wk' = after_callback(w, loop, cb.l)
                                    /\ sync_progress' = update_sync_progress(cb.progress,
                                           "processing", "Error inserting release", at)
                    ELSE /\ sync_progress' =
                               IF raised
                               THEN candidate_error(p2, at)
                               ELSE update_sync_progress(p2, "processing",
                                        "Skipping torrent without complete data", at)
                         /\ wk' = [ wk EXCEPT ![w] = loop ]
                         /\ db' = db
    /\ UNCHANGED << sync_in_progress, last_sync_check, now, pc, resync, lastResponse,
                    runs, userOps, site, overlapped, driver, callbacks, aux >>

\* lines 313-323, after the last candidate
scraper_return(w) ==
    /\ pc[w] = "processing"
    /\ wk[w].i = Len(wk[w].torrent_links)
    /\ sync_progress' = update_sync_progress(sync_progress, "completed",
                            "Processing completed", NoKw)
    /\ pc' = [ pc EXCEPT ![w] = "returned" ]
    /\ UNCHANGED << sync_in_progress, db, last_sync_check, now, wk, resync, lastResponse,
                    runs, userOps, site, overlapped, driver,
                    callbacks, aux >>

\* X1337Scraper.close: driver.quit() and self.driver = None
close(held) == FALSE

\* app.py lines 258-279: the scraper has returned its list of releases; the
\* return of line 263 leaves before the timestamp and before scraper.close()
worker_complete(w) ==
    /\ pc[w] = "returned"
    /\ IF wk[w].releases = 0
       THEN /\ sync_progress' = update_sync_progress(sync_progress, "completed",
                                    "No new releases found", NoKw)
            /\ UNCHANGED << last_sync_check, now, driver >>
       ELSE /\ last_sync_check' = now
            /\ now' = now + 1
            /\ sync_progress' = update_sync_progress(sync_progress, "completed",
                                    "Synchronization completed", Counts(wk[w]))
            /\ driver' = close(driver)
    /\ pc' = [ pc EXCEPT ![w] = "exiting" ]
    /\ UNCHANGED << sync_in_progress, db, wk, resync, lastResponse, runs, userOps, site,
                    overlapped, callbacks, aux >>

\* app.py lines 281-292: an exception outside the scraper's own handlers, as
\* socketio.emit raising under the 'scraping' update of lines 249-254; scraper
\* is a global, so 'scraper' in locals() is False and close() is not called
worker_raise(w) ==
    /\ pc[w] = "registering"
    /\ url_check_callback' = w
    /\ sync_progress' = update_sync_progress(announce_depth(w), "error",
                            "Synchronization error", NoKw)
    /\ pc' = [ pc EXCEPT ![w] = "exiting" ]
    /\ UNCHANGED << sync_in_progress, db, last_sync_check, now, wk, resync, lastResponse,
                    runs, userOps, site, overlapped, driver, insert_callback, aux >>

\* the end of the thread without the finally clause of lines 294-296: the
\* running flag stays as it is
worker_exit_flag_kept(w) ==
    /\ pc[w] = "exiting"
    /\ pc' = [ pc EXCEPT ![w] = "none" ]
    /\ wk' = [ wk EXCEPT ![w] =
                 IF w \in { insert_callback, url_check_callback }
                    /\ \E v \in Workers \ {w} : pc[v] \in {"scraping", "processing"}
                 THEN with_closure(NoLocals, wk[w])
                 ELSE NoLocals ]
    /\ UNCHANGED << sync_in_progress, sync_progress, db, last_sync_check, now, resync,
                    lastResponse, runs, userOps, site, overlapped, driver,
                    callbacks, aux >>

\* app.py lines 294-296: the finally clause; the frame is gone, but the
\* callbacks stay with the scraper while the loop of another run can call them
worker_exit(w) ==
    /\ pc[w] = "exiting"
    /\ sync_in_progress' = FALSE
    /\ pc' = [ pc EXCEPT ![w] = "none" ]
    /\ wk' = [ wk EXCEPT ![w] =
                 IF w \in { insert_callback, url_check_callback }
                    /\ \E v \in Workers \ {w} : pc[v] \in {"scraping", "processing"}
                 THEN with_closure(NoLocals, wk[w])
                 ELSE NoLocals ]
    /\ UNCHANGED << sync_progress, db, last_sync_check, now, resync, lastResponse,
                    runs, userOps, site, overlapped, driver,
                    callbacks, aux >>

(* --------------------------- user requests ----------------------------- *)

StoredIds == { db[i].id : i \in 1..Len(db) }

\* PUT /api/releases/<id>/status and POST /api/update_status
user_update_status ==
    /\ userOps < MaxUserOps
    /\ \E release_id \in StoredIds, status \in Statuses :
          db' = update_release_status(db, release_id, status)[1]
    /\ userOps' = userOps + 1
    /\ UNCHANGED << sync_in_progress, sync_progress, last_sync_check, now, pc, wk,
                    resync, lastResponse, runs, site, overlapped, driver,
                    callbacks, aux >>

\* DELETE /api/releases/<id>
user_delete_release ==
    /\ userOps < MaxUserOps
    /\ \E release_id \in StoredIds : db' = delete_release(db, release_id)[1]
    /\ userOps' = userOps + 1
    /\ UNCHANGED << sync_in_progress, sync_progress, last_sync_check, now, pc, wk,
                    resync, lastResponse, runs, site, overlapped, driver,
                    callbacks, aux >>

\* POST /api/releases/clear with confirm
clear_all_releases ==
    /\ userOps < MaxUserOps
    /\ db # << >>
    /\ db' = << >>
    /\ userOps' = userOps + 1
    /\ UNCHANGED << sync_in_progress, sync_progress, last_sync_check, now, pc, wk,
                    resync, lastResponse, runs, site, overlapped, driver,
                    callbacks, aux >>

NoResync == [ id |-> NoId, url |-> "", status |-> "" ]

\* POST /api/releases/<id>/sync, lines 780-787: the stored release is read
sync_single_release_read ==
    /\ userOps < MaxUserOps
    /\ resync = NoResync
    /\ \E release_id \in StoredIds :
         \E existing_release \in get_release_by_id(db, release_id) :
            resync' = [ id |-> release_id, url |-> existing_release.url,
                        status |-> existing_release.status ]
    /\ userOps' = userOps + 1
    /\ UNCHANGED << sync_in_progress, sync_progress, db, last_sync_check, now, pc, wk,
                    lastResponse, runs, site, overlapped, driver,
                    callbacks, aux >>

\* lines 789-833: the page is scraped again and written over the stored release
sync_single_release_write ==
    /\ resync # NoResync
    /\ \E page \in Served(resync.url) :
         LET found == extract_release_details(resync.url, page)
         IN IF found = {}
            THEN UNCHANGED << db, now >>
            ELSE LET updated_release == [ (CHOOSE r \in found : TRUE) EXCEPT !.status = resync.status ]
                     upd == update_release_by_id(db, resync.id, updated_release, now)
                 IN /\ db' = upd[1]
                    /\ now' = IF upd[2] THEN now + 1 ELSE now
    /\ resync' = NoResync
    /\ UNCHANGED << sync_in_progress, sync_progress, last_sync_check, pc, wk,
                    lastResponse, runs, userOps, site, overlapped, driver,
                    callbacks, aux >>

(* --------------------------- specification ----------------------------- *)

\* the globals of app.py after initialize_components, before any request
AppInit ==
    /\ sync_in_progress = FALSE
    /\ sync_progress = sync_progress_initial
    /\ db = << >>
    /\ last_sync_check = NoTime
    /\ now = 1
    /\ pc = [ w \in Workers |-> "none" ]
    /\ wk = [ w \in Workers |-> NoLocals ]
    /\ resync = NoResync
    /\ overlapped = FALSE
    /\ lastResponse = "none"
    /\ runs = 0
    /\ userOps = 0
    /\ driver \in BOOLEAN
    /\ insert_callback = 0
    /\ url_check_callback = 0

\* the site lists the catalogue; a detail page carries any magnet link, or
\* none, and the first content
SiteInit ==
    /\ site = Catalogue
    /\ \E c \in Contents :
          /\ c.description = "d1"
          /\ served = [ u \in Catalogue |-> Answers(Magnets \cup {""}, {c}) ]

Init ==
    /\ AppInit
    /\ SiteInit
    /\ assigned_ids = << >>
    /\ dates = NoDates
    /\ sizes = NoSizes
    /\ candidate = NoCandidate
    /\ extraction = NoExtractions

Next ==
    \/ sync_releases
    \/ \E w \in Workers : worker_start(w)
    \/ \E w \in Workers : worker_load(w)
    \/ \E w \in Workers : worker_register(w)
    \/ \E w \in Workers : worker_register_url_check(w)
    \/ \E w \in Workers : fetch_page(w)
    \/ \E w \in Workers : begin_processing(w)
    \/ \E w \in Workers : process_candidate(w)
    \/ \E w \in Workers : scraper_return(w)
    \/ \E w \in Workers : worker_complete(w)
    \/ \E w \in Workers : worker_raise(w)
    \/ \E w \in Workers : worker_exit(w)
    \/ user_update_status
    \/ user_delete_release
    \/ clear_all_releases
    \/ sync_single_release_read
    \/ sync_single_release_write

Spec == Init /\ [][Next]_vars

(* -------------------- calls of _parse_relative_date -------------------- *)

\* the counts written in a date text
Amounts == { 0, 1, 3, 45, 3000 }

\* words that are no unit of either pattern
OtherWords == { << "s", "e", "c", "s" >>, << "m" >>, << "s" >> }

Words ==
    LongUnits \cup { unit \o << "s" >> : unit \in LongUnits } \cup ShortUnits \cup OtherWords

DateTexts ==
    [ amount : Amounts, blanks_before : 0..1, word : Words, blanks_after : 0..1,
      last : { << "a", "g", "o" >>, << "l", "a", "t", "e", "r" >> } ]

\* readings of datetime.now() on 2026-11-01
Clock == { [ days |-> 739921, seconds |-> 30 ], [ days |-> 739921, seconds |-> 43200 ] }

InitDates ==
    /\ AppInit
    /\ SiteInit
    /\ assigned_ids = << >>
    /\ \E text \in DateTexts, time \in Clock :
          dates = [ text |-> text, time |-> time, called |-> FALSE, parsed |-> {} ]
    /\ sizes = NoSizes
    /\ candidate = NoCandidate
    /\ extraction = NoExtractions

\* one call of _parse_relative_date
call_parse_relative_date ==
    /\ ~dates.called
    /\ dates' = [ dates EXCEPT !.called = TRUE,
                               !.parsed = parse_relative_date(dates.text, dates.time) ]
    /\ UNCHANGED << sync_in_progress, sync_progress, db, last_sync_check, now, pc, wk,
                    resync, site, overlapped, lastResponse, runs, userOps, driver,
                    callbacks, served, assigned_ids, sizes, candidate, extraction >>

NextDates == call_parse_relative_date

DateSpec == InitDates /\ [][NextDates]_vars

(* ------------------------ calls of _extract_size ----------------------- *)

\* elements of a page
MaxElements == 2

Soups == UNION { [ 1..n -> Elements ] : n \in 0..MaxElements }

InitSizes ==
    /\ AppInit
    /\ SiteInit
    /\ assigned_ids = << >>
    /\ dates = NoDates
    /\ \E soup \in Soups : sizes = [ soup |-> soup, called |-> FALSE, size |-> Unknown ]
    /\ candidate = NoCandidate
    /\ extraction = NoExtractions

\* one call of _extract_size
call_extract_size ==
    /\ ~sizes.called
    /\ sizes' = [ sizes EXCEPT !.called = TRUE, !.size = extract_size(sizes.soup) ]
    /\ UNCHANGED << sync_in_progress, sync_progress, db, last_sync_check, now, pc, wk,
                    resync, site, overlapped, lastResponse, runs, userOps, driver,
                    callbacks, served, assigned_ids, dates, candidate, extraction >>

NextSizes == call_extract_size

SizeSpec == InitSizes /\ [][NextSizes]_vars

(* ------------------------- calls of the store -------------------------- *)

\* inserts in a sequence of calls
MaxInserts == 3

StoreUrls == {"u1", "u2"}

\* the releases handed to the store
StoreReleases ==
    [ url : StoreUrls, magnet_link : Magnets, content : Contents, status : {"NEW"} ]

\* insert_release(release); the id it returns is recorded
call_insert_release ==
    /\ Len(assigned_ids) < MaxInserts
    /\ \E release \in StoreReleases :
          LET ins == insert_release(db, release)
          IN /\ db' = ins[1]
             /\ assigned_ids' = IF ins[2] # NoId THEN Append(assigned_ids, ins[2])
                                                ELSE assigned_ids
    /\ UNCHANGED << sync_in_progress, sync_progress, last_sync_check, now, pc, wk,
                    resync, site, overlapped, lastResponse, runs, userOps, driver,
                    callbacks, served, dates, sizes, candidate, extraction >>

\* update_release(release), and update_release_by_id(release_id, release) as
\* the single-release re-sync calls it, with a release scraped from the URL
\* of the stored one (app.py lines 780-805)
call_update_release ==
    /\ \E release \in StoreReleases :
          \/ db' = update_release(db, release)[1]
          \/ \E release_id \in 1..MaxInserts :
                /\ \E existing_release \in get_release_by_id(db, release_id) :
                      existing_release.url = release.url
                /\ db' = update_release_by_id(db, release_id, release, now)[1]
    /\ UNCHANGED << sync_in_progress, sync_progress, last_sync_check, now, pc, wk,
                    resync, site, overlapped, lastResponse, runs, userOps, driver,
                    callbacks, aux >>

\* update_release_status(release_id, status)
call_update_release_status ==
    /\ \E release_id \in 1..MaxInserts, status \in Statuses :
          db' = update_release_status(db, release_id, status)[1]
    /\ UNCHANGED << sync_in_progress, sync_progress, last_sync_check, now, pc, wk,
                    resync, site, overlapped, lastResponse, runs, userOps, driver,
                    callbacks, aux >>

\* delete_release(release_id)
call_delete_release ==
    /\ \E release_id \in 1..MaxInserts : db' = delete_release(db, release_id)[1]
    /\ UNCHANGED << sync_in_progress, sync_progress, last_sync_check, now, pc, wk,
                    resync, site, overlapped, lastResponse, runs, userOps, driver,
                    callbacks, aux >>

\* clear_all_releases()
call_clear_all_releases ==
    /\ db' = << >>
    /\ UNCHANGED << sync_in_progress, sync_progress, last_sync_check, now, pc, wk,
                    resync, site, overlapped, lastResponse, runs, userOps, driver,
                    callbacks, aux >>

NextStore ==
    \/ call_insert_release
    \/ call_update_release
    \/ call_update_release_status
    \/ call_delete_release
    \/ call_clear_all_releases

\* a new database file: no release stored, no id assigned yet
StoreSpec == Init /\ [][NextStore]_vars

(* ------------------ calls of insert_release_callback ------------------- *)

\* a stored dict: written by insert_release, or written again by a re-sync,
\* which adds created_at
StoredRecords ==
    [ url : Catalogue, magnet_link : Magnets, content : Contents, status : Statuses,
      id : 1..2, created_at : {NoTime, 1} ]

\* the stores of one or two records, with the ids and keys insert_release gives
ResolverStores ==
    { releases \in [ 1..1 -> StoredRecords ] \cup [ 1..2 -> StoredRecords ] :
        /\ \A i \in 1..Len(releases) : releases[i].id = i
        /\ \A i, j \in 1..Len(releases) :
              i # j => release_key(releases[i]) # release_key(releases[j]) }

\* app.py lines 118-137: the lookup structures and counters of a run that
\* starts from the store
closure_of(releases) ==
    [ NoLocals EXCEPT
        !.existing_release_keys =
            [ k \in StoredKeys(releases) |->
                CHOOSE r \in Range(releases) : release_key(r) = k ],
        !.existing_urls = { releases[i].url : i \in 1..Len(releases) },
        !.db0 = releases ]

\* a run has loaded the store and its scraper has extracted a release
InitResolver ==
    /\ sync_in_progress = FALSE
    /\ sync_progress = sync_progress_initial
    /\ db \in ResolverStores
    /\ last_sync_check = NoTime
    /\ now = 2
    /\ pc = [ w \in Workers |-> "none" ]
    /\ wk = [ w \in Workers |-> NoLocals ]
    /\ resync = NoResync
    /\ overlapped = FALSE
    /\ lastResponse = "none"
    /\ runs = 0
    /\ userOps = 0
    /\ driver \in BOOLEAN
    /\ insert_callback = 0
    /\ url_check_callback = 0
    /\ SiteInit
    /\ assigned_ids = << >>
    /\ dates = NoDates
    /\ sizes = NoSizes
    /\ \E url \in Catalogue, page \in Answers(Magnets, Contents) :
         \E release \in extract_release_details(url, page) :
            candidate = [ release |-> release, l |-> closure_of(db), called |-> FALSE,
                          result |-> FALSE ]
    /\ extraction = NoExtractions

\* one call of insert_release_callback
call_insert_release_callback ==
    /\ ~candidate.called
    /\ LET cb == insert_release_callback(db, candidate.l, sync_progress, candidate.release)
       IN /\ db' = cb.db
          /\ sync_progress' = cb.progress
          /\ candidate' = [ candidate EXCEPT !.called = TRUE, !.l = cb.l,
                                             !.result = cb.result ]
    /\ UNCHANGED << sync_in_progress, last_sync_check, now, pc, wk,
                    resync, site, overlapped, lastResponse, runs, userOps, driver,
                    callbacks, served, assigned_ids, dates, sizes, extraction >>

NextResolver == call_insert_release_callback

ResolverSpec == InitResolver /\ [][NextResolver]_vars

(* -------------- the images of _extract_release_details ----------------- *)

\* extractions in a sequence
MaxExtractions == 3

\* x1337_scraper.py line 530
max_retries == 2

\* the finally clause of an attempt without lines 622-623: nothing is quit
quit_skipped(open) == open

\* lines 621-623: driver.quit() releases the browser instance of the attempt
quit(open) == open - 1

\* lines 483-525: the detail page is parsed; its description block is found
\* or not, and direct parsing yields an image or none; the fallback is entered
\* when there is a block, no image and the scraper holds its driver
begin_extraction(t) ==
    /\ extraction[t].phase \in {"idle", "returned"}
    /\ extraction[t].n < MaxExtractions
    /\ \E description_div \in BOOLEAN, cover \in BOOLEAN, shots \in BOOLEAN :
          LET cover_image_url == description_div /\ cover
              screenshot_urls == description_div /\ shots
          IN extraction' = [ extraction EXCEPT ![t] =
               [ NoExtraction EXCEPT
                   !.n = extraction[t].n + 1,
                   !.created = extraction[t].created,
                   !.cover_image_url = cover_image_url,
                   !.screenshot_urls = screenshot_urls,
                   !.direct = cover_image_url \/ screenshot_urls,
                   !.phase = IF description_div /\ ~cover_image_url /\ ~screenshot_urls /\ driver
                             THEN "fallback" ELSE "returned" ] ]
    /\ UNCHANGED << sync_in_progress, sync_progress, db, last_sync_check, now, pc, wk,
                    resync, site, overlapped, lastResponse, runs, userOps, driver,
                    callbacks, served, assigned_ids, dates, sizes, candidate >>

\* the locals after the finally clause and the checks of lines 625-632
after_attempt(e, open, cover, shots) ==
    [ e EXCEPT !.open = open,
               !.cover_image_url = cover,
               !.screenshot_urls = shots,
               !.found = cover \/ shots,
               !.found_at = IF cover \/ shots THEN e.attempt ELSE 0,
               !.phase = IF cover \/ shots \/ e.attempt >= max_retries
                         THEN "returned" ELSE "fallback" ]

\* lines 532-545: the next attempt starts; webdriver.Chrome() gives a browser
\* instance or raises, and then the attempt ends with no instance to quit
start_attempt(t) ==
    /\ extraction[t].phase = "fallback"
    /\ extraction[t].attempt < max_retries
    /\ LET e == [ extraction[t] EXCEPT !.attempt = @ + 1 ]
       IN \/ extraction' = [ extraction EXCEPT ![t] =
                                [ e EXCEPT !.open = @ + 1, !.created = @ + 1,
                                           !.phase = "attempting" ] ]
          \/ extraction' = [ extraction EXCEPT ![t] = after_attempt(e, e.open, FALSE, FALSE) ]
    /\ UNCHANGED << sync_in_progress, sync_progress, db, last_sync_check, now, pc, wk,
                    resync, site, overlapped, lastResponse, runs, userOps, driver,
                    callbacks, served, assigned_ids, dates, sizes, candidate >>

\* lines 546-632: the page is rendered and parsed again; the attempt raises,
\* finds no image or finds one; the finally clause quits the instance
end_attempt(t) ==
    /\ extraction[t].phase = "attempting"
    /\ \E cover \in BOOLEAN, shots \in BOOLEAN :
          extraction' = [ extraction EXCEPT ![t] =
               after_attempt(extraction[t], quit(extraction[t].open), cover, shots) ]
    /\ UNCHANGED << sync_in_progress, sync_progress, db, last_sync_check, now, pc, wk,
                    resync, site, overlapped, lastResponse, runs, userOps, driver,
                    callbacks, served, assigned_ids, dates, sizes, candidate >>

\* app.py line 274: a run that completed with releases closes the scraper;
\* the extractions of the run have returned by then
run_completes ==
    /\ extraction["worker"].phase \in {"idle", "returned"}
    /\ driver' = close(driver)
    /\ UNCHANGED << sync_in_progress, sync_progress, db, last_sync_check, now, pc, wk,
                    resync, site, overlapped, lastResponse, runs, userOps,
                    callbacks, aux >>

NextFallback ==
    \/ \E t \in Threads : begin_extraction(t)
    \/ \E t \in Threads : start_attempt(t)
    \/ \E t \in Threads : end_attempt(t)
    \/ run_completes

FallbackSpec == Init /\ [][NextFallback]_vars

(* ------------------- one run over a two-URL catalogue ------------------ *)

CrawlCatalogue == {"u1", "u2"}

\* the stores a run can start from: empty, or holding the release an earlier
\* run stored for u1, in any status, written again by a re-sync or not
CrawlStores ==
    { << >> } \cup
    { << [ id |-> 1, url |-> "u1", magnet_link |-> "m1", content |-> c,
           status |-> st, created_at |-> t ] >> :
        c \in Contents, st \in Statuses, t \in {NoTime, 1} }

\* the worker thread of one accepted request has been created; every detail
\* page carries one magnet link, or none, and one content
InitCrawl ==
    /\ sync_in_progress = FALSE
    /\ sync_progress = sync_progress_initial
    /\ db \in CrawlStores
    /\ last_sync_check = (IF db = << >> THEN NoTime ELSE 2)
    /\ now = (IF db = << >> THEN 1 ELSE 3)
    /\ pc = [ w \in Workers |-> IF w = 1 THEN "spawned" ELSE "none" ]
    /\ wk = [ w \in Workers |-> NoLocals ]
    /\ resync = NoResync
    /\ site = CrawlCatalogue
    /\ overlapped = FALSE
    /\ lastResponse = "started"
    /\ runs = 1
    /\ userOps = 0
    /\ driver \in BOOLEAN
    /\ insert_callback = 0
    /\ url_check_callback = 0
    /\ served \in [ CrawlCatalogue ->
                       { Answers({m}, {c}) : m \in Magnets \cup {""}, c \in Contents } ]
    /\ assigned_ids = << >>
    /\ dates = NoDates
    /\ sizes = NoSizes
    /\ candidate = NoCandidate
    /\ extraction = NoExtractions

NextCrawl ==
    \/ \E w \in Workers : worker_start(w)
    \/ \E w \in Workers : worker_load(w)
    \/ \E w \in Workers : worker_register(w)
    \/ \E w \in Workers : worker_register_url_check(w)
    \/ \E w \in Workers : fetch_page(w)
    \/ \E w \in Workers : begin_processing(w)
    \/ \E w \in Workers : process_candidate(w)
    \/ \E w \in Workers : scraper_return(w)
    \/ \E w \in Workers : worker_complete(w)
    \/ \E w \in Workers : worker_raise(w)
    \/ \E w \in Workers : worker_exit(w)

CrawlSpec == InitCrawl /\ [][NextCrawl]_vars

\* two start requests were accepted before either worker thread set the
\* running flag: both threads have been created; the site lists one URL, whose
\* detail page carries one magnet link and one content
InitRace ==
    /\ sync_in_progress = FALSE
    /\ sync_progress = sync_progress_initial
    /\ db = << >>
    /\ last_sync_check = NoTime
    /\ now = 1
    /\ pc = [ w \in Workers |-> "spawned" ]
    /\ wk = [ w \in Workers |-> NoLocals ]
    /\ resync = NoResync
    /\ site = Catalogue
    /\ overlapped = FALSE
    /\ lastResponse = "started"
    /\ runs = MaxRuns
    /\ userOps = 0
    /\ driver \in BOOLEAN
    /\ insert_callback = 0
    /\ url_check_callback = 0
    /\ served \in [ Catalogue -> { Answers({m}, {c}) : m \in Magnets, c \in Contents } ]
    /\ assigned_ids = << >>
    /\ dates = NoDates
    /\ sizes = NoSizes
    /\ candidate = NoCandidate
    /\ extraction = NoExtractions

RaceSpec == InitRace /\ [][NextCrawl]_vars

\* a step of the worker thread w that does not raise
WorkerStep(w) ==
    \/ worker_start(w)
    \/ worker_load(w)
    \/ worker_register(w)
    \/ worker_register_url_check(w)
    \/ fetch_page(w)
    \/ begin_processing(w)
    \/ process_candidate(w)
    \/ scraper_return(w)
    \/ worker_complete(w)
    \/ worker_exit(w)

\* start requests and the runs they start
NextLive ==
    \/ sync_releases
    \/ NextCrawl

\* a thread that can take a step takes one: the requests have timeouts, the
\* pauses are finite and the threads are scheduled
LiveSpec ==
    /\ Init
    /\ [][NextLive]_vars
    /\ \A w \in Workers : WF_vars(WorkerStep(w))

\* the same run, while the user marks stored releases
NextCurated ==
    \/ NextCrawl
    \/ user_update_status

CuratedSpec == InitCrawl /\ [][NextCurated]_vars

(* ------------------------------ claims --------------------------------- *)

\* a worker thread is executing sync_releases_worker
Running(w) == pc[w] \notin {"none", "spawned"}

\* the step is one turn of the candidate loop of worker w
CandidateStep(w) == pc[w] = "processing" /\ wk'[w].i = wk[w].i + 1

\* the step is the write of the single-release re-sync
ResyncWrite == resync # NoResync /\ resync' = NoResync

\* C1: at most one sync run is active at any time: no two executions of
\* sync_releases_worker overlap.
C1_SingleActiveRun == Cardinality({ w \in Workers : Running(w) }) <= 1

SyncRequestHandled ==
    lastResponse' # lastResponse \/ \E w \in Workers : pc[w] = "none" /\ pc'[w] = "spawned"

\* C2: a start-sync request handled while the running flag is set is rejected,
\* starts no worker and leaves the progress record, the flag and the store as
\* they were.
C2_RejectedWhileRunning ==
    [][ (sync_in_progress /\ SyncRequestHandled) =>
            /\ lastResponse' = "rejected"
            /\ UNCHANGED << sync_in_progress, sync_progress, db, pc, wk >> ]_vars

C2_Witness == lastResponse = "rejected" /\ sync_in_progress /\ \E w \in Workers : Running(w)

\* C3: a candidate is classified new only when no stored record has its
\* (url, magnet_link), and then exactly one record is created for it; every
\* other candidate creates no record.
C3_AtMostOneNew ==
    [][ \A w \in Workers : CandidateStep(w) =>
            IF wk'[insert_callback].new_releases # wk[insert_callback].new_releases
            THEN /\ wk'[insert_callback].new_releases = wk[insert_callback].new_releases + 1
                 /\ Len(db') = Len(db) + 1
                 /\ SubSeq(db', 1, Len(db)) = db
                 /\ release_key(db'[Len(db')]) \notin StoredKeys(db)
            ELSE Len(db') = Len(db) ]_vars

\* in a second run the candidate of a stored release has been resolved, not as new
C3_Witness ==
    \E w \in Workers :
        /\ runs = 2 /\ ~overlapped
        /\ pc[w] = "processing" /\ wk[w].i = 1 /\ wk[w].new_releases = 0
        /\ \E j \in 1..Len(db) : db[j].url = wk[w].torrent_links[1]

\* C4: no record with an empty or missing magnet_link is ever in the store.
C4_NoEmptyMagnet == \A j \in 1..Len(db) : db[j].magnet_link \notin {"", None}

\* a release inserted by a run has been written again by a re-sync
C4_Witness == \E j \in 1..Len(db) : db[j].created_at # NoTime

AllListedStored(w) ==
    /\ wk[w].torrent_links # << >>
    /\ Range(wk[w].torrent_links) \subseteq { wk[w].db0[j].url : j \in 1..Len(wk[w].db0) }

\* C5: if every detail URL listed is already stored when a run starts, then at
\* its end the store is as at the start and the progress record reports
\* new_releases = 0 and updated_releases = 0.
C5_NothingNewReportsZero ==
    [][ \A w \in Workers :
          ( /\ pc[w] = "returned" /\ pc'[w] = "exiting"
            /\ ~overlapped /\ userOps = 0
            /\ wk[w].page > EndPage /\ wk[w].i = Len(wk[w].torrent_links)
            /\ AllListedStored(w) ) =>
          /\ db' = wk[w].db0
          /\ sync_progress'.new_releases = 0
          /\ sync_progress'.updated_releases = 0 ]_vars

Curated == {"DOWNLOADED", "IGNORED"}

\* C6: a turn of the candidate loop on the URL of a stored record whose status
\* is DOWNLOADED or IGNORED leaves that record as it is and counts the
\* candidate neither as updated nor, under that record's key, as new.
C6_CuratedUntouched ==
    [][ \A w \in Workers : CandidateStep(w) =>
          \A j \in 1..Len(db) :
             ( db[j].url = wk'[w].torrent_links[wk'[w].i] /\ db[j].status \in Curated ) =>
                /\ Len(db') >= Len(db)
                /\ db'[j] = db[j]
                /\ wk'[insert_callback].updated_releases = wk[insert_callback].updated_releases
                /\ ( wk'[insert_callback].new_releases # wk[insert_callback].new_releases =>
                        release_key(db'[Len(db')]) # release_key(db[j]) ) ]_vars

\* a run that started with a curated record stored has passed that record's URL
C6_Witness ==
    \E w \in Workers :
        /\ pc[w] = "processing" /\ wk[w].i = 1
        /\ \E j \in 1..Len(db) :
              /\ db[j].url = wk[w].torrent_links[1]
              /\ db[j].status \in Curated
              /\ db[j] \in Range(wk[w].db0)

\* C7: a record's status changes only by a user status update: the re-sync
\* write keeps every record's id, created_at and current status, and so does
\* every turn of a run's candidate loop.
C7_ResyncKeepsStatus ==
    [][ (ResyncWrite \/ \E w \in Workers : CandidateStep(w)) =>
          /\ Len(db') >= Len(db)
          /\ \A j \in 1..Len(db) :
                /\ db'[j].id = db[j].id
                /\ db'[j].status = db[j].status
                /\ ( db[j].created_at # NoTime => db'[j].created_at = db[j].created_at ) ]_vars

Rank(status) ==
    CASE status = "idle" -> 0
      [] status = "starting" -> 1
      [] status = "scraping" -> 2
      [] status = "processing" -> 3
      [] status \in {"completed", "error"} -> 4

\* C8: within one run the status only advances along idle, starting, scraping,
\* processing, then completed or error, and a record whose status is completed
\* or error changes only by the first update of the next run.
C8_StatusAdvancesThenFrozen ==
    [][ ~overlapped' =>
          /\ ( sync_progress'.status # "starting" =>
                  Rank(sync_progress'.status) >= Rank(sync_progress.status) )
          /\ ( ( sync_progress.status \in {"completed", "error"}
                 /\ sync_progress' # sync_progress ) =>
                  sync_progress'.status = "starting" ) ]_vars

\* C9: after the first progress update of a run the page, release and result
\* counters hold no value left by a previous run.
C9_ResetAtStart ==
    \A w \in Workers :
        ( pc[w] = "started" /\ ~overlapped ) =>
            /\ sync_progress.current_page = 0
            /\ sync_progress.current_release = 0
            /\ sync_progress.total_releases = 0
            /\ sync_progress.new_releases = 0
            /\ sync_progress.updated_releases = 0
            /\ ( "skipped_releases" \in DOMAIN sync_progress =>
                    sync_progress.skipped_releases = 0 )

\* C10: a run that ends with status completed has persisted the last-sync
\* timestamp, and its completed event carries the run's own new, updated and
\* skipped counts.
C10_CompletedPersistsAndCounts ==
    [][ \A w \in Workers :
          ( pc[w] = "returned" /\ pc'[w] = "exiting"
            /\ sync_progress'.status = "completed" ) =>
          /\ last_sync_check' = now
          /\ "skipped_releases" \in DOMAIN sync_progress'
          /\ sync_progress'.new_releases = wk[w].new_releases
          /\ sync_progress'.updated_releases = wk[w].updated_releases
          /\ sync_progress'.skipped_releases = wk[w].skipped_releases ]_vars

\* the step is the finally clause of worker w: the running flag is cleared
WorkerExit(w) == pc[w] = "exiting" /\ pc'[w] = "none"

\* C11: whenever a run ends, with new releases, with none or by a run-level
\* exception, the scraper holds no browser driver when the running flag is
\* cleared.
C11_DriverClosedAtExit ==
    [][ \A w \in Workers : WorkerExit(w) => ( ~sync_in_progress' /\ ~driver' ) ]_vars

\* C12: when the request for one listing page fails, only that page is
\* skipped: every detail URL collected from the other pages has gone through
\* the candidate loop when the scraper returns.
C12_FailedPageOnlySkipped ==
    \A w \in Workers :
        pc[w] \in {"returned", "exiting"} => wk[w].i = Len(wk[w].torrent_links)

\* the step is one turn of the page loop of worker w: a listing page is requested
PageFetch(w) ==
    /\ pc[w] = "scraping" /\ wk[w].page <= EndPage
    /\ ( wk'[w].page = wk[w].page + 1 \/ pc'[w] = "returned" )

\* C13: once a fetched listing page has yielded no detail URL, no page with a
\* higher number is requested: in particular none is requested after pages
\* that all came back empty.
C13_EmptyPageStopsPaging ==
    [][ \A w \in Workers :
          ( wk[w].page > 1 /\ wk[w].torrent_links = << >> ) => ~PageFetch(w) ]_vars

FailureMessages ==
    { "Skipping torrent without complete data", "Error inserting release",
      "Error processing torrent" }

\* C14: a candidate whose extraction, resolution or commit fails or raises
\* ends neither the loop nor the run: the loop stays at work with status
\* processing, goes through every later candidate, and is left only after the
\* last one, with status completed.
C14_FailedCandidateSkipped ==
    [][ \A w \in Workers :
          ( pc[w] = "processing" /\ ( pc'[w] # pc[w] \/ wk'[w] # wk[w] ) ) =>
             IF wk[w].i < Len(wk[w].torrent_links)
             THEN /\ pc'[w] = "processing"
                  /\ wk'[w].i = wk[w].i + 1
                  /\ wk'[w].torrent_links = wk[w].torrent_links
                  /\ sync_progress'.status = "processing"
                  /\ sync_progress'.current_release = wk'[w].i
             ELSE /\ pc'[w] = "returned"
                  /\ sync_progress'.status = "completed" ]_vars

\* the first candidate was not stored and the second one has been
C14_Witness ==
    \E w \in Workers :
        /\ pc[w] = "processing" /\ wk[w].i = 2
        /\ wk[w].torrent_links[1] \notin wk[w].existing_urls
        /\ sync_progress.message = "Release inserted"

\* the URL the turn of the candidate loop is about
CandidateUrl(w) == wk'[w].torrent_links[wk'[w].i]

\* C15: for a candidate URL that is in existing_urls when the loop reaches it,
\* the turn ends at the membership check: no detail page is requested, nothing
\* is extracted, resolved or stored.
C15_KnownUrlNotExtracted ==
    [][ \A w \in Workers :
          ( CandidateStep(w) /\ CandidateUrl(w) \in wk[url_check_callback].existing_urls ) =>
             /\ sync_progress'.message = "URL already exists, skipped"
             /\ db' = db
             /\ Counts(wk'[insert_callback]) = Counts(wk[insert_callback])
             /\ wk'[w].releases = wk[w].releases ]_vars

\* a run has passed, with a later candidate, the URL of a stored release
C15_Witness ==
    \E w \in Workers :
        /\ pc[w] = "processing" /\ wk[w].i = 2
        /\ wk[w].torrent_links[2] \in { wk[w].db0[j].url : j \in 1..Len(wk[w].db0) }
        /\ sync_progress.message = "URL already exists, skipped"

StoredMagnets(releases, url) ==
    { releases[j].magnet_link : j \in { k \in 1..Len(releases) : releases[k].url = url } }

\* C20: when a run meets a URL stored with one magnet link while its detail
\* page carries another, the candidate is classified new and stored as a
\* record of its own next to the stored one, unless its extraction failed.
C20_NewMagnetStoredApart ==
    [][ \A w \in Workers : \A m \in Magnets :
          ( /\ CandidateStep(w)
            /\ StoredMagnets(db, CandidateUrl(w)) # {}
            /\ m \notin StoredMagnets(db, CandidateUrl(w))
            /\ \A page \in Served(CandidateUrl(w)) : page.magnet_link = m
            /\ sync_progress'.message \notin FailureMessages ) =>
             /\ StoredMagnets(db', CandidateUrl(w)) = StoredMagnets(db, CandidateUrl(w)) \cup {m}
             /\ wk'[insert_callback].new_releases = wk[insert_callback].new_releases + 1 ]_vars

\* C16: after any sequence of insert, update, delete and clear operations no
\* two stored records have the same id, and every id assigned by an insert is
\* strictly greater than every id assigned by an earlier insert.
C16_IdsUniqueAndIncreasing ==
    /\ \A i, j \in 1..Len(db) : i # j => db[i].id # db[j].id
    /\ \A i, j \in 1..Len(assigned_ids) : i < j => assigned_ids[i] < assigned_ids[j]

\* the stored record with the key of the release the resolver is called with
StoredUnderKey(j) ==
    /\ ~candidate.called /\ candidate'.called
    /\ j \in 1..Len(db)
    /\ release_key(db[j]) = release_key(candidate.release)

\* C19: when the resolver receives a candidate whose key exists and whose
\* stored record has status NEW: if description, size or screenshot count
\* differ from the stored values, the stored record's content becomes the
\* candidate's, its id and created_at are unchanged and the candidate is
\* counted as updated; if none differ, the store is unchanged and the
\* candidate is skipped.
C19_ExistingNewUpdatedOrSkipped ==
    [][ \A j \in 1..Len(db) :
          ( StoredUnderKey(j) /\ db[j].status = "NEW" ) =>
             IF db[j].content # candidate.release.content
             THEN /\ Len(db') = Len(db)
                  /\ db'[j].content = candidate.release.content
                  /\ db'[j].id = db[j].id
                  /\ db'[j].created_at = db[j].created_at
                  /\ candidate'.l.updated_releases = candidate.l.updated_releases + 1
             ELSE /\ db' = db
                  /\ candidate'.l.skipped_releases = candidate.l.skipped_releases + 1
                  /\ candidate'.l.updated_releases = candidate.l.updated_releases ]_vars

\* the units of the claim, in long form, singular or plural, or abbreviated,
\* with the duration of one unit in seconds (up to the hour) or in days
UnitSeconds(word) ==
    CASE word \in { << "s", "e", "c", "o", "n", "d" >>, << "s", "e", "c", "o", "n", "d", "s" >>, << "s", "e", "c" >> } -> 1
      [] word \in { << "m", "i", "n", "u", "t", "e" >>, << "m", "i", "n", "u", "t", "e", "s" >>, << "m", "i", "n" >> } -> 60
      [] word \in { << "h", "o", "u", "r" >>, << "h", "o", "u", "r", "s" >>, << "h", "r" >>, << "h" >> } -> 3600
      [] OTHER -> 0

UnitDays(word) ==
    CASE word \in { << "d", "a", "y" >>, << "d", "a", "y", "s" >>, << "d" >> } -> 1
      [] word \in { << "w", "e", "e", "k" >>, << "w", "e", "e", "k", "s" >>, << "w" >> } -> 7
      [] word \in { << "m", "o", "n", "t", "h" >>, << "m", "o", "n", "t", "h", "s" >>, << "m", "o" >> } -> 30
      [] word \in { << "y", "e", "a", "r" >>, << "y", "e", "a", "r", "s" >>, << "y" >> } -> 365
      [] OTHER -> 0

\* the text reads 'N unit ago'
AgoForm(text) ==
    /\ text.blanks_before = 1 /\ text.blanks_after = 1
    /\ text.last = << "a", "g", "o" >>
    /\ ( UnitSeconds(text.word) > 0 \/ UnitDays(text.word) > 0 )

\* the text has no unit word followed by a blank and 'ago'
NoAgoForm(text) ==
    \/ text.word \in OtherWords
    \/ text.blanks_after = 0
    \/ text.last # << "a", "g", "o" >>

\* r is time minus amount units of word
IsTimeMinus(r, time, amount, word) ==
    IF UnitDays(word) > 0
    THEN r.days = time.days - amount * UnitDays(word) /\ r.seconds = time.seconds
    ELSE /\ r.seconds \in 0..(SecondsPerDay - 1)
         /\ (time.days - r.days) * SecondsPerDay + (time.seconds - r.seconds)
               = amount * UnitSeconds(word)

\* time minus amount units of word is a datetime: not before 0001-01-01
Representable(time, amount, word) ==
    IF UnitDays(word) > 0
    THEN time.days - amount * UnitDays(word) >= 1
    ELSE \/ amount * UnitSeconds(word) <= time.seconds
         \/ time.days - 1 >=
               ((amount * UnitSeconds(word) - time.seconds - 1) \div SecondsPerDay) + 1

LabeledSizes(soup) ==
    { soup[i].token : i \in { j \in 1..Len(soup) : soup[j].labeled /\ soup[j].token # NoToken } }

\* C18: when the page carries a labeled size of a plausible value anywhere,
\* the size extracted is a labeled one, whatever unlabeled sizes the cells and
\* the text carry; when the page carries no size, the result is the unknown
\* marker.
C18_LabeledSizeFirst ==
    sizes.called =>
        /\ ( \E t \in LabeledSizes(sizes.soup) : in_range(t) ) =>
              \E t \in LabeledSizes(sizes.soup) :
                  sizes.size \in { [ number |-> t.number, unit |-> t.unit ],
                                   [ number |-> float_str(t), unit |-> t.unit ] }
        /\ ( \A i \in 1..Len(sizes.soup) : sizes.soup[i].token = NoToken ) =>
              sizes.size = Unknown

\* the two lookup structures of a worker hold the same URLs
LookupsAgree(l) == l.existing_urls = { key[1] : key \in DOMAIN l.existing_release_keys }

\* C21: in every state of a run the two lookup structures agree: a URL is in
\* existing_urls exactly when some key with that URL is in the key index; after
\* a candidate is classified new its key and its URL are in both structures
\* before the next candidate is checked.
C21_LookupsAgree ==
    /\ \A w \in Workers : LookupsAgree(wk[w])
    /\ [][ /\ \A w \in Workers : LookupsAgree(wk'[w])
           /\ \A w \in Workers :
                 ( CandidateStep(w) /\ wk'[insert_callback].new_releases # wk[insert_callback].new_releases ) =>
                    /\ CandidateUrl(w) \in wk'[insert_callback].existing_urls
                    /\ \E key \in DOMAIN wk'[insert_callback].existing_release_keys :
                          /\ key[1] = CandidateUrl(w)
                          /\ key \notin DOMAIN wk[insert_callback].existing_release_keys ]_vars

\* a run has stored its first candidate and has another one to check
C21_Witness ==
    \E w \in Workers :
        /\ pc[w] = "processing" /\ wk[w].i = 1 /\ Len(wk[w].torrent_links) = 2
        /\ wk[w].new_releases = 1
        /\ wk[w].torrent_links[1] \in wk[w].existing_urls

\* C22: committing a candidate whose key equals that of a stored record
\* leaves the store unchanged and is a benign no-op: the candidate is not
\* counted as new and no error is reported for it on the progress channel.
C22_DuplicateCommitBenign ==
    [][ \A w \in Workers : \A m \in Magnets :
          ( /\ CandidateStep(w)
            /\ CandidateUrl(w) \notin wk[url_check_callback].existing_urls
            /\ \A page \in Served(CandidateUrl(w)) : page.magnet_link = m
            /\ << CandidateUrl(w), m >> \in StoredKeys(db)
            /\ sync_progress'.message \notin
                  { "Skipping torrent without complete data", "Error processing torrent" } ) =>
             /\ db' = db
             /\ wk'[insert_callback].new_releases = wk[insert_callback].new_releases
             /\ sync_progress'.status # "error"
             /\ sync_progress'.message # "Error inserting release" ]_vars

\* C23: for every extraction, in the first run and in every later one, where
\* direct parsing yields neither cover nor screenshot, the browser fallback is
\* attempted; at most 2 attempts are made per extraction and none after one
\* that yields an image.
C23_FallbackAttempted ==
    \A t \in Threads :
        /\ ( extraction[t].phase = "returned" /\ ~extraction[t].direct ) =>
              extraction[t].attempt >= 1
        /\ extraction[t].attempt <= 2
        /\ extraction[t].found => extraction[t].attempt = extraction[t].found_at

\* the instances of an extraction are released before its next attempt starts
\* and before it returns
ReleasedAfterAttempt(t) ==
    extraction[t].phase # "attempting" => extraction[t].open = 0

\* C24: every browser instance created for a fallback attempt is released
\* before the next attempt starts and before the extraction returns, on every
\* exit path including an exception inside the attempt; at no point are two
\* per-attempt instances open.
C24_AttemptBrowserReleased ==
    /\ \A t \in Threads : ReleasedAfterAttempt(t)
    /\ extraction["worker"].open + extraction["request"].open <= 1

\* C24, amended: the same, with at no point two per-attempt instances of one
\* extraction open.
C24_AttemptBrowserReleasedPerExtraction ==
    \A t \in Threads : ReleasedAfterAttempt(t) /\ extraction[t].open <= 1

\* the first extraction of a thread has returned after two attempts that each
\* had a browser
C24_Witness ==
    \E t \in Threads :
        /\ extraction[t].phase = "returned"
        /\ extraction[t].n = 1 /\ extraction[t].attempt = 2 /\ extraction[t].created = 2

\* the counters of the run that a call of the resolver has raised
Raised(before, after) ==
    { c \in {"new_releases", "updated_releases", "skipped_releases"} : after[c] # before[c] }

\* C25: every candidate that reaches the resolver is counted in exactly one of
\* new_releases, updated_releases, skipped_releases: new + updated + skipped
\* grows by one with every candidate resolved.
C25_CountedExactlyOnce ==
    [][ ( ~candidate.called /\ candidate'.called ) =>
          /\ Cardinality(Raised(candidate.l, candidate'.l)) = 1
          /\ \A c \in Raised(candidate.l, candidate'.l) : candidate'.l[c] = candidate.l[c] + 1 ]_vars

\* C26: after any sequence of store operations (insert, update by URL, update
\* by id via the single-release re-sync, status update, delete) no two stored
\* records have the same composite key.
C26_KeysUnique ==
    \A i, j \in 1..Len(db) : i # j => release_key(db[i]) # release_key(db[j])

\* C27: in every progress snapshot, over any number of consecutive runs,
\* current_page is at most total_pages and current_release is at most
\* total_releases.
C27_ProgressWithinTotals ==
    ~overlapped =>
        /\ sync_progress.current_page <= sync_progress.total_pages
        /\ sync_progress.current_release <= sync_progress.total_releases

\* C28: in every reachable state, if the progress status is starting, scraping
\* or processing then the running flag sync_in_progress is true.
C28_ActiveStatusImpliesFlag ==
    sync_progress.status \in {"starting", "scraping", "processing"} => sync_in_progress

\* C29: every started run eventually terminates, and on every exit path
\* (completed, early return with no releases, run-level exception) it clears
\* the running flag, after which a new start-sync request is accepted.
C29_RunEndsAndFlagCleared ==
    /\ \A w \in Workers : ( pc[w] = "spawned" ) ~> ( pc[w] = "none" /\ ~sync_in_progress )
    /\ [][ \A w \in Workers : WorkerExit(w) => ~sync_in_progress' ]_vars
    /\ [][ ( ~sync_in_progress /\ SyncRequestHandled ) => lastResponse' = "started" ]_vars

\* a run has ended and the next start request has been accepted
C29_Witness ==
    /\ ~sync_in_progress
    /\ sync_progress.status \in {"completed", "error"}
    /\ \E w \in Workers : pc[w] = "spawned"

\* C30: the insert callback is never called with a candidate whose composite
\* key its key index holds: in every run updated_releases and skipped_releases
\* stay 0, and no turn of the candidate loop changes a record the store
\* already holds
C30_ResolverNeverSeesStoredKey ==
    /\ [] ( \A w \in Workers : wk[w].updated_releases = 0 /\ wk[w].skipped_releases = 0 )
    /\ [][ \A w \in Workers :
              process_candidate(w) => \A j \in 1..Len(db) : db'[j] = db[j] ]_vars

====
